---- MODULE Spec2Model ----
(***************************************************************************)
(* Model of org-jira-timeline.py: the interval matcher, the issue resolver *)
(* chain, the submission gate and the reconciliation driver.               *)
(*                                                                         *)
(* Time stamps are naive datetimes counted in seconds from an epoch that   *)
(* lies on a midnight; a timedelta is a number of seconds.  Python's None  *)
(* is the string "None", the empty string is "".                           *)
(***************************************************************************)
EXTENDS Integers, Sequences, FiniteSets

VARIABLES
    nodes,            \* root[1:] of the parsed org file, in document order
    intervals,        \* args.intervals
    settings,         \* settings['project_regexps'], settings['tags']
    query_jira,       \* args.query_jira
    send_data,        \* args.send_data_to_jira
    status,           \* "running" | "done" | "aborted" (uncaught exception)
    run,              \* number of the current invocation of the script
    prev,             \* how the previous invocation ended, and its flags
    ni,               \* position of `for node in root[1:]`
    ci,               \* position of `for clocked in node.clock` (0: at the node)
    invoice_time,
    skipped_time,
    cumulative_time,
    per_day,
    per_task,
    worklogs,         \* the tracker: issue id -> work-logs of the issue
    calls,            \* remote operations issued by the current invocation
    m_clock,          \* a recorded (clock_start, clock_end) given to the matcher
    m_result,         \* what match_lookup_intervals returned for it
    r_node,           \* a node given to the resolver
    r_result          \* what find_jira_issue returned for it

vars == <<nodes, intervals, settings, query_jira, send_data, status, run, prev,
          ni, ci, invoice_time, skipped_time, cumulative_time, per_day,
          per_task, worklogs, calls, m_clock, m_result, r_node, r_result>>

(***************************************************************************)
(* Bounds of the model and constants of the program.                       *)
(***************************************************************************)
MaxT == 3                 \* time stamps are 0, Step, ..., MaxT * Step
MaxIntervals == 2         \* requested intervals given to the matcher alone
MaxRuns == 2              \* invocations of the script in a row
SecondsPerDay == 86400    \* datetime: seconds of one day
Step == SecondsPerDay \div 2   \* grid of the time stamps: half a day

None == "None"
Truthy(x) == x # None /\ x # ""
\* Python's `a or b`
Or(a, b) == IF Truthy(a) THEN a ELSE b

Times == {k * Step : k \in 0..MaxT}
Min(a, b) == IF a < b THEN a ELSE b

\* Interval = namedtuple('Interval', ['start', 'end'])
Interval(s, e) == [start |-> s, end |-> e]
\* None where an Interval is expected
NoInterval == [none |-> TRUE]

\* timedelta.seconds: the seconds field of the normalised (days, seconds) pair
timedelta_seconds(d) == d % SecondsPerDay

\* datetime.date() of a naive time stamp, as a day number
date(t) == t \div SecondsPerDay

(***************************************************************************)
(* Interval Matcher                                                        *)
(***************************************************************************)
RECURSIVE match_from(_, _, _, _)
match_from(ivls, i, clock_start, clock_end) ==
    IF i > Len(ivls) THEN NoInterval
    ELSE IF clock_start >= ivls[i].start /\ clock_start < ivls[i].end
         THEN Interval(clock_start,
                       IF clock_end < ivls[i].end THEN clock_end ELSE ivls[i].end)
         ELSE match_from(ivls, i + 1, clock_start, clock_end)

\* a matcher that takes the right edge of a requested interval as inside it
RECURSIVE match_from_closed(_, _, _, _)
match_from_closed(ivls, i, clock_start, clock_end) ==
    IF i > Len(ivls) THEN NoInterval
    ELSE IF clock_start >= ivls[i].start /\ clock_start <= ivls[i].end
         THEN Interval(clock_start,
                       IF clock_end < ivls[i].end THEN clock_end ELSE ivls[i].end)
         ELSE match_from_closed(ivls, i + 1, clock_start, clock_end)

match_lookup_intervals_closed(ivls, clock_start, clock_end) ==
    match_from_closed(ivls, 1, clock_start, clock_end)

match_lookup_intervals(ivls, clock_start, clock_end) ==
    match_from(ivls, 1, clock_start, clock_end)

(***************************************************************************)
(* Issue Resolver.  A node is a record                                     *)
(*   parent     : index of the parent node, 0 for the root of the file     *)
(*                (the root has no `heading` attribute)                    *)
(*   heading    : the issue ids written in the heading, left to right      *)
(*   tags       : node.tags, a set, as the sequence in which the loop of   *)
(*                line 73 yields its members; the order of a set of        *)
(*                strings varies with the hash seed of the process         *)
(*   properties : the values of jira-task and jira-skip (None when absent) *)
(*   clock      : node.clock, each entry a record (start, end)             *)
(***************************************************************************)
\* the project key a written issue id starts with: the part before the hyphen
ProjectOf(id) ==
    CASE id \in {"A-1", "A-3"} -> "A"
      [] id \in {"B-2"} -> "B"
      [] id \in {"C-4"} -> "C"
      [] id \in {"D-5"} -> "D"
      [] OTHER -> None

\* re.findall(r'\s*({project}-\d+)\s*', heading): the ids of that project
findall(project, heading) == SelectSeq(heading, LAMBDA id : ProjectOf(id) = project)

RECURSIVE heading_from(_, _, _)
heading_from(regexps, k, heading) ==
    IF k > Len(regexps) THEN None
    ELSE IF Len(findall(regexps[k], heading)) > 0
         THEN findall(regexps[k], heading)[1]
         ELSE heading_from(regexps, k + 1, heading)

find_issue_in_heading(node, st) == heading_from(st.project_regexps, 1, node.heading)

find_issue_in_property(node, st) == node.properties.jira_task

RECURSIVE tag_from(_, _, _)
tag_from(tags, k, tagmap) ==
    IF k > Len(tags) THEN None
    ELSE IF tags[k] \in DOMAIN tagmap THEN tagmap[tags[k]]
         ELSE tag_from(tags, k + 1, tagmap)

find_issue_by_tag(node, st) == tag_from(node.tags, 1, st.tags)

\* a resolver that looks at the heading before the jira-task property
RECURSIVE find_jira_issue_walk_heading_first(_, _, _)
find_jira_issue_walk_heading_first(nds, n, st) ==
    LET here == Or(Or(find_issue_in_heading(nds[n], st),
                      find_issue_in_property(nds[n], st)),
                   find_issue_by_tag(nds[n], st))
    IN  IF Truthy(here) THEN [issue |-> here, steps |-> 0]
        ELSE IF nds[n].parent # 0
        THEN LET up == find_jira_issue_walk_heading_first(nds, nds[n].parent, st)
             IN  [issue |-> up.issue, steps |-> up.steps + 1]
        ELSE [issue |-> None, steps |-> 1]

\* The resolver, as the record of the issue it returns and of the number of
\* find_issue_in_parent calls it made on the way.
RECURSIVE find_jira_issue_walk(_, _, _)
find_issue_in_parent_walk(nds, n, st) ==
    IF nds[n].parent # 0
    THEN LET up == find_jira_issue_walk(nds, nds[n].parent, st)
         IN  [issue |-> up.issue, steps |-> up.steps + 1]
    ELSE [issue |-> None, steps |-> 1]

find_jira_issue_walk(nds, n, st) ==
    LET here == Or(Or(find_issue_in_property(nds[n], st),
                      find_issue_in_heading(nds[n], st)),
                   find_issue_by_tag(nds[n], st))
    IN  IF Truthy(here) THEN [issue |-> here, steps |-> 0]
        ELSE find_issue_in_parent_walk(nds, n, st)

find_jira_issue(nds, n, st) == find_jira_issue_walk(nds, n, st).issue

(***************************************************************************)
(* Submission Gate.  A remote work-log is a record                         *)
(*   started          : the time stamp the tracker reports, a wall-clock   *)
(*                      reading with its offset from UTC                   *)
(*   timeSpentSeconds : the time spent                                     *)
(***************************************************************************)
\* arrow.get(worklog.started).datetime: the aware datetime of the string
arrow_get(started) == [naive |-> started.naive, utcoffset |-> started.utcoffset]
\* pytz.utc.localize(naive datetime)
utc_localize(t) == [naive |-> t, utcoffset |-> 0]
\* == of two aware datetimes compares the instants
aware_eq(a, b) == a.naive - a.utcoffset = b.naive - b.utcoffset

\* a duplicate check on the wall-clock readings, whatever their zones
already_submitted_naive(logs, interval) ==
    \E i \in 1..Len(logs) : logs[i].started.naive = interval.start

\* the loop of lines 103-108: some work-log of the issue started at interval.start
already_submitted(logs, interval) ==
    \E i \in 1..Len(logs) :
        aware_eq(arrow_get(logs[i].started), utc_localize(interval.start))

\* a client that sends the naive time stamp as one of the zone UTC+12
add_worklog_local(wl, jira_issue, started, seconds) ==
    [wl EXCEPT ![jira_issue] =
        Append(@, [started |-> [naive |-> started, utcoffset |-> Step],
                   timeSpentSeconds |-> seconds])]

\* jira.add_worklog(issue, started, timeSpentSeconds, comment) with a naive
\* `started`, which the client sends as a UTC time stamp
add_worklog(wl, jira_issue, started, seconds) ==
    [wl EXCEPT ![jira_issue] =
        Append(@, [started |-> [naive |-> started, utcoffset |-> 0],
                   timeSpentSeconds |-> seconds])]

\* a test of the length that lets every interval through
nonzero_always(interval) == TRUE

\* (interval.end-interval.start).seconds taken as a condition
nonzero(interval) == timedelta_seconds(interval.end - interval.start) # 0

\* a remote operation issued on an issue, and whether it raised
Call(op, jira_issue, raised) == [op |-> op, issue |-> jira_issue, raised |-> raised]

\* send_interval_to_jira on the tracker state wl.  failAt names the remote
\* operation that raises ("none": none does).  The result holds the return
\* value, whether an exception left the function, the tracker state after
\* the call and the remote operations issued, in order.
send_interval_to_jira(wl, jira_issue, interval, query, send, failAt) ==
    LET seconds == timedelta_seconds(interval.end - interval.start)
        Result(sent, raised, w, cs) ==
            [sent |-> sent, raised |-> raised, worklogs |-> w, calls |-> cs]
        fetch(r) == Call("issue", jira_issue, r)
        list(r) == Call("worklogs", jira_issue, r)
        create(r) == Call("add_worklog", jira_issue, r)
        queried == IF query THEN <<fetch(FALSE), list(FALSE)>> ELSE <<>>
        fetched == IF query THEN queried ELSE <<fetch(FALSE)>>
    IN  IF query /\ failAt = "issue"
        THEN Result(FALSE, TRUE, wl, <<fetch(TRUE)>>)
        ELSE IF query /\ failAt = "worklogs"
        THEN Result(FALSE, TRUE, wl, <<fetch(FALSE), list(TRUE)>>)
        ELSE IF query /\ already_submitted(wl[jira_issue], interval)
        THEN Result(FALSE, FALSE, wl, queried)
        ELSE IF send /\ nonzero(interval)
        THEN IF ~query /\ failAt = "issue"
             THEN Result(FALSE, TRUE, wl, <<fetch(TRUE)>>)
             ELSE IF nonzero(interval)
             THEN IF failAt = "add_worklog"
                  THEN Result(FALSE, TRUE, wl, Append(fetched, create(TRUE)))
                  ELSE Result(TRUE, FALSE,
                              add_worklog(wl, jira_issue, interval.start, seconds),
                              Append(fetched, create(FALSE)))
             ELSE Result(FALSE, FALSE, wl, fetched)
        ELSE Result(FALSE, FALSE, wl, queried)

FailPoints == {"none", "issue", "worklogs", "add_worklog"}

(***************************************************************************)
(* Reconciliation Driver                                                   *)
(***************************************************************************)
Issues == {"A-1", "B-2"}
TaskKeys == Issues \cup {None}
Dates == 0..date(MaxT * Step)

\* clocked.duration of an org clock entry
duration(clocked) == clocked.end - clocked.start

\* the lambda of the per_day defaultdict
day_zero == [invoice_time |-> 0, skipped_time |-> 0,
             cumulative_time |-> 0, added_time |-> 0]

\* node.properties.get('jira-skip') taken as a condition
skip_of(node) == Truthy(node.properties.jira_skip)

\* counters that take a skipped entry for invoiced time too
tally_no_else(cnt, skip, d) ==
    [cnt EXCEPT !.skipped_time = IF skip THEN @ + d ELSE @,
                !.invoice_time = @ + d,
                !.cumulative_time = @ + d]

\* lines 160-167 on one set of counters (the global ones, or one day's)
tally(cnt, skip, d) ==
    [cnt EXCEPT !.skipped_time = IF skip THEN @ + d ELSE @,
                !.invoice_time = IF skip THEN @ ELSE @ + d,
                !.cumulative_time = @ + d]

\* a gate called for skipped nodes too
gate_called_skipped_too(jira_issue, skip) == Truthy(jira_issue)

\* line 170: the gate is called for this entry
gate_called(jira_issue, skip) == Truthy(jira_issue) /\ ~skip

\* a driver that catches the exception and goes on
status_after_caught(raised) == "running"

\* an exception raised in the gate is caught nowhere: it ends the run
status_after(raised) == IF raised THEN "aborted" ELSE "running"

DriverIdle ==
    /\ query_jira = TRUE
    /\ send_data = TRUE
    /\ status = "idle"
    /\ run = 0
    /\ prev = [ended |-> "idle", query_jira |-> TRUE, send_data |-> TRUE, calls |-> <<>>]
    /\ ni = 1
    /\ ci = 0
    /\ invoice_time = 0
    /\ skipped_time = 0
    /\ cumulative_time = 0
    /\ per_day = [d \in Dates |-> day_zero]
    /\ per_task = [k \in TaskKeys |-> 0]
    /\ calls = <<>>

MatcherIdle == m_clock = NoInterval /\ m_result = NoInterval
ResolverIdle == r_node = 0 /\ r_result = [issue |-> None, steps |-> 0]

\* lines 256-272 and 129-140: one invocation of the script begins
main(q, s) ==
    /\ status \in {"idle", "done", "aborted"}
    /\ run < MaxRuns
    /\ run' = run + 1
    /\ prev' = [ended |-> status, query_jira |-> query_jira,
                send_data |-> send_data, calls |-> calls]
    /\ query_jira' = q
    /\ send_data' = s
    /\ status' = "running"
    /\ ni' = 1
    /\ ci' = 0
    /\ invoice_time' = 0
    /\ skipped_time' = 0
    /\ cumulative_time' = 0
    /\ per_day' = [d \in Dates |-> day_zero]
    /\ per_task' = [k \in TaskKeys |-> 0]
    /\ calls' = <<>>
    /\ UNCHANGED <<nodes, intervals, settings, worklogs,
                   m_clock, m_result, r_node, r_result>>

\* lines 145-152: the next node of the file; one without clock is passed over
visit_node ==
    /\ status = "running"
    /\ ni <= Len(nodes)
    /\ ci = 0
    /\ IF Len(nodes[ni].clock) = 0
       THEN ni' = ni + 1 /\ ci' = 0
       ELSE ni' = ni /\ ci' = 1
    /\ UNCHANGED <<nodes, intervals, settings, query_jira, send_data, status,
                   run, prev, invoice_time, skipped_time, cumulative_time,
                   per_day, per_task, worklogs, calls,
                   m_clock, m_result, r_node, r_result>>

\* lines 153-176: one clock entry of the current node
process_clock(failAt) ==
    /\ status = "running"
    /\ ni <= Len(nodes)
    /\ ci >= 1
    /\ LET node == nodes[ni]
           clocked == node.clock[ci]
           skip == skip_of(node)
           matched_interval ==
               match_lookup_intervals(intervals, clocked.start, clocked.end)
           jira_issue == find_jira_issue(nodes, ni, settings)
           day == date(clocked.start)
           called == matched_interval # NoInterval /\ gate_called(jira_issue, skip)
           gate == send_interval_to_jira(worklogs, jira_issue, matched_interval,
                                         query_jira, send_data, failAt)
           raised == called /\ gate.raised
           added == called /\ ~gate.raised /\ gate.sent
           totals == tally([invoice_time |-> invoice_time,
                            skipped_time |-> skipped_time,
                            cumulative_time |-> cumulative_time],
                           skip, duration(clocked))
           counted == [tally(per_day[day], skip, duration(clocked))
                          EXCEPT !.added_time =
                              IF added THEN @ + duration(clocked) ELSE @]
       IN  /\ failAt = "none" \/ raised
           /\ IF matched_interval = NoInterval
              THEN UNCHANGED <<invoice_time, skipped_time, cumulative_time,
                               per_day, per_task>>
              ELSE /\ invoice_time' = totals.invoice_time
                   /\ skipped_time' = totals.skipped_time
                   /\ cumulative_time' = totals.cumulative_time
                   /\ per_day' = [per_day EXCEPT ![day] = counted]
                   /\ per_task' = [per_task EXCEPT ![jira_issue] =
                                      @ + duration(clocked)]
           /\ worklogs' = IF called THEN gate.worklogs ELSE worklogs
           /\ calls' = IF called THEN calls \o gate.calls ELSE calls
           /\ status' = status_after(raised)
           /\ IF raised
              THEN UNCHANGED <<ni, ci>>
              ELSE IF ci < Len(node.clock)
                   THEN ni' = ni /\ ci' = ci + 1
                   ELSE ni' = ni + 1 /\ ci' = 0
    /\ UNCHANGED <<nodes, intervals, settings, query_jira, send_data, run, prev,
                   m_clock, m_result, r_node, r_result>>

\* lines 177-193: the loops are over, the report is printed
report ==
    /\ status = "running"
    /\ ni > Len(nodes)
    /\ status' = "done"
    /\ UNCHANGED <<nodes, intervals, settings, query_jira, send_data, run, prev,
                   ni, ci, invoice_time, skipped_time, cumulative_time, per_day,
                   per_task, worklogs, calls, m_clock, m_result, r_node, r_result>>

(***************************************************************************)
(* Inputs                                                                  *)
(***************************************************************************)
Node(parent, heading, tags, task, skipv, clock) ==
    [parent |-> parent, heading |-> heading, tags |-> tags,
     properties |-> [jira_task |-> task, jira_skip |-> skipv], clock |-> clock]

\* parseIntervals: 'YYYY-MM-DD..YYYY-MM-DD' tokens, as pairs of day numbers,
\* become intervals from midnight to midnight
parseIntervals(values) ==
    [i \in 1..Len(values) |->
        Interval(values[i][1] * SecondsPerDay, values[i][2] * SecondsPerDay)]

\* recorded clock entries: start and end on the grid, start <= end
ClockEntries == {c \in [start : Times, end : Times] : c.start <= c.end}

NoTags == [t \in {} |-> None]
DriverSettings == [project_regexps |-> <<"A", "B">>, tags |-> NoTags]

\* a node of a driver document: one of the markers, skipped or not, at most
\* one clock entry
DriverNodes(parent, markers) ==
    {Node(parent, m[2], <<>>, m[1], sk, cl) :
        m \in markers, sk \in {None, "t"},
        cl \in {<<>>} \cup {<<c>> : c \in ClockEntries}}

\* a file of two headings, the second a child of the first: the first names
\* no issue or A-1 by property, the second names none of its own or B-2 in
\* its heading
DriverDocs ==
    {<<n1, n2>> : n1 \in DriverNodes(0, {<<None, <<>>>>, <<"A-1", <<>>>>}),
                  n2 \in DriverNodes(1, {<<None, <<>>>>, <<None, <<"B-2">>>>})}

\* the days a request may name: the first day alone, or every day of the grid
RequestedDays == {<<0, 1>>, <<0, date(MaxT * Step) + 1>>}

\* the tracker before the first run: empty, or issue A-1 holding one work-log
\* that started at the epoch and is reported at UTC+12
ShownAhead == [started |-> [naive |-> Step, utcoffset |-> Step],
               timeSpentSeconds |-> Step]
Trackers == {[i \in Issues |-> <<>>],
             [i \in Issues |-> IF i = "A-1" THEN <<ShownAhead>> ELSE <<>>]}

Init ==
    /\ nodes \in DriverDocs
    /\ intervals \in {parseIntervals(<<v>>) : v \in RequestedDays}
    /\ settings = DriverSettings
    /\ worklogs \in Trackers
    /\ DriverIdle
    /\ MatcherIdle
    /\ ResolverIdle

\* the script is invoked for the first time
first_run(q, s) == status = "idle" /\ main(q, s)

\* the script is invoked again with the same arguments, after a run that
\* completed or aborted
rerun == status \in {"done", "aborted"} /\ main(query_jira, send_data)

Next ==
    \/ \E q \in BOOLEAN, s \in BOOLEAN : first_run(q, s)
    \/ visit_node
    \/ \E failAt \in FailPoints : process_clock(failAt)
    \/ report

Spec == Init /\ [][Next]_vars

\* Repeated invocations over one file of two headings and two clock entries.
\* The first heading names A-1.  It holds one entry and the second heading,
\* which inherits A-1 or names B-2, the other; or it holds both entries and
\* the second heading none.  The request is for every day of the grid.
RerunDocs ==
    {<<Node(0, <<>>, <<>>, "A-1", None, <<c1>>), Node(1, m[2], <<>>, m[1], None, <<c2>>)>> :
        c1 \in ClockEntries, c2 \in ClockEntries,
        m \in {<<None, <<>>>>, <<None, <<"B-2">>>>}}
    \cup
    {<<Node(0, <<>>, <<>>, "A-1", None, <<c1, c2>>), Node(1, <<>>, <<>>, None, None, <<>>)>> :
        c1 \in ClockEntries, c2 \in ClockEntries}

InitRerun ==
    /\ nodes \in RerunDocs
    /\ intervals = parseIntervals(<<<<0, date(MaxT * Step) + 1>>>>)
    /\ settings = DriverSettings
    /\ worklogs \in Trackers
    /\ DriverIdle
    /\ MatcherIdle
    /\ ResolverIdle

NextRerun ==
    \/ \E q \in BOOLEAN, s \in BOOLEAN : first_run(q, s)
    \/ rerun
    \/ visit_node
    \/ \E failAt \in FailPoints : process_clock(failAt)
    \/ report

SpecRerun == InitRerun /\ [][NextRerun]_vars

(***************************************************************************)
(* The matcher alone, over any list of requested intervals.                *)
(***************************************************************************)
AnyIntervals == [start : Times, end : Times]
IntervalLists ==
    UNION {[1..n -> AnyIntervals] : n \in 0..MaxIntervals}

InitMatch ==
    /\ intervals \in IntervalLists
    /\ nodes = <<>>
    /\ settings = DriverSettings
    /\ worklogs = [i \in Issues |-> <<>>]
    /\ DriverIdle
    /\ MatcherIdle
    /\ ResolverIdle

match(c) ==
    /\ m_clock = NoInterval
    /\ m_clock' = c
    /\ m_result' = match_lookup_intervals(intervals, c.start, c.end)
    /\ UNCHANGED <<nodes, intervals, settings, query_jira, send_data, status,
                   run, prev, ni, ci, invoice_time, skipped_time,
                   cumulative_time, per_day, per_task, worklogs, calls,
                   r_node, r_result>>

NextMatch == \E c \in ClockEntries : match(c)

SpecMatch == InitMatch /\ [][NextMatch]_vars

(***************************************************************************)
(* The resolver alone, over chains of headings: node 1 is a top-level      *)
(* heading, node n + 1 a child of node n.                                  *)
(***************************************************************************)
ChainLen == 3

\* the orders in which the loop over the tag set {x, y, z} may yield it, as
\* far as the configured tags x and y go: x before y, or y before x
TagOrders == {<<"z", "x", "y">>, <<"z", "y", "x">>}

ChainNodes(parent) ==
    {Node(parent, h, tg, task, None, <<>>) :
        h \in {<<>>, <<"B-2", "A-3">>},
        tg \in {<<>>} \cup TagOrders,
        task \in {None, "", "A-1"}}

RECURSIVE Chains(_)
Chains(n) ==
    IF n = 0 THEN {<<>>}
    ELSE {Append(ch, nd) : ch \in Chains(n - 1), nd \in ChainNodes(n - 1)}

\* x and y are configured, z is not; the issue of x may be left empty
TagMaps == {[t \in {"x", "y"} |-> IF t = "x" THEN "C-4" ELSE "D-5"],
            [t \in {"x", "y"} |-> IF t = "x" THEN "" ELSE "D-5"]}

\* both projects configured, or B alone
ResolverSettings ==
    [project_regexps : {<<"A", "B">>, <<"B">>}, tags : TagMaps]

InitResolve ==
    /\ nodes \in Chains(ChainLen)
    /\ settings \in ResolverSettings
    /\ intervals = <<>>
    /\ worklogs = [i \in Issues |-> <<>>]
    /\ DriverIdle
    /\ MatcherIdle
    /\ ResolverIdle

resolve(n) ==
    /\ r_node = 0
    /\ r_node' = n
    /\ r_result' = find_jira_issue_walk(nodes, n, settings)
    /\ UNCHANGED <<nodes, intervals, settings, query_jira, send_data, status,
                   run, prev, ni, ci, invoice_time, skipped_time,
                   cumulative_time, per_day, per_task, worklogs, calls,
                   m_clock, m_result>>

NextResolve == \E n \in 1..ChainLen : resolve(n)

SpecResolve == InitResolve /\ [][NextResolve]_vars

(***************************************************************************)
(* Properties                                                              *)
(***************************************************************************)
\* the least element of a non-empty set of numbers
Least(S) == CHOOSE i \in S : \A j \in S : i <= j

\* the requested intervals whose half-open range holds the time stamp t
Containing(t) ==
    {i \in 1..Len(intervals) : intervals[i].start <= t /\ t < intervals[i].end}

\* C3: the matcher returns the recorded start with the recorded end clipped to
\* the end of the first requested interval, in list order, that contains the
\* recorded start, and no match when no requested interval contains the start
\* (wherever the recorded end lies).
C3_MatchClipsToFirstContaining ==
    m_clock # NoInterval =>
        IF Containing(m_clock.start) = {}
        THEN m_result = NoInterval
        ELSE m_result =
                Interval(m_clock.start,
                         Min(m_clock.end, intervals[Least(Containing(m_clock.start))].end))

\* two requested intervals with different ends hold the start, and the
\* recorded end lies beyond the end of the first: the result is cut there
C3_Witness ==
    /\ m_clock # NoInterval
    /\ Containing(m_clock.start) = {1, 2}
    /\ intervals[1].end < intervals[2].end
    /\ intervals[1].end < m_clock.end
    /\ m_result = Interval(m_clock.start, intervals[1].end)

\* the issue one node names by itself: the jira-task property if not empty,
\* else the left-most id in the heading of the first configured project that
\* has one, else the configured issue of the first tag that is configured,
\* if not empty
OwnIssue(node, st) ==
    LET keys == {k \in 1..Len(st.project_regexps) :
                    \E j \in 1..Len(node.heading) :
                        ProjectOf(node.heading[j]) = st.project_regexps[k]}
        ids(k) == {j \in 1..Len(node.heading) :
                      ProjectOf(node.heading[j]) = st.project_regexps[k]}
        known == {j \in 1..Len(node.tags) : node.tags[j] \in DOMAIN st.tags}
    IN  IF Truthy(node.properties.jira_task) THEN node.properties.jira_task
        ELSE IF keys # {} THEN node.heading[Least(ids(Least(keys)))]
        ELSE IF known # {} /\ Truthy(st.tags[node.tags[Least(known)]])
             THEN st.tags[node.tags[Least(known)]]
        ELSE None

\* the k-th ancestor of node n (n itself for k = 0), and the number of
\* headings from n up to its top-level heading
RECURSIVE Ancestor(_, _, _)
Ancestor(nds, n, k) == IF k = 0 THEN n ELSE Ancestor(nds, nds[n].parent, k - 1)
RECURSIVE Depth(_, _)
Depth(nds, n) == IF nds[n].parent = 0 THEN 1 ELSE 1 + Depth(nds, nds[n].parent)

\* the distances at which a node of the chain above n (n included) names an issue
Naming(nds, n, st) ==
    {k \in 0..(Depth(nds, n) - 1) : Truthy(OwnIssue(nds[Ancestor(nds, n, k)], st))}

\* C4: the resolver returns the issue named by the node itself or else by its
\* nearest ancestor that names one, each node naming by property before
\* heading pattern before tag (the configured tag the loop over the tag set
\* yields first); it returns no match when no heading up to the
\* top names one; it takes as many parent steps as that ancestor is away,
\* at most one per ancestor of the node (the file root included).
C4_ResolvesByPrecedenceUpTheChain ==
    r_node # 0 =>
        LET hits == Naming(nodes, r_node, settings)
        IN  /\ r_result.steps <= Depth(nodes, r_node)
            /\ IF hits = {}
               THEN r_result = [issue |-> None, steps |-> Depth(nodes, r_node)]
               ELSE r_result =
                       [issue |-> OwnIssue(nodes[Ancestor(nodes, r_node, Least(hits))], settings),
                        steps |-> Least(hits)]

\* the deepest heading resolves to the property of the top-level heading,
\* which also names another issue in its heading; the headings between name none
C4_Witness ==
    /\ r_node = ChainLen
    /\ Naming(nodes, r_node, settings) = {ChainLen - 1}
    /\ nodes[1].properties.jira_task = "A-1"
    /\ find_issue_in_heading(nodes[1], settings) = "B-2"
    /\ r_result = [issue |-> "A-1", steps |-> ChainLen - 1]

\* the clock entries of the file, as (node, position in node.clock)
Entries == {e \in (1..Len(nodes)) \X (1..2) : e[2] <= Len(nodes[e[1]].clock)}
Clock(e) == nodes[e[1]].clock[e[2]]

\* the entries the current run has gone through: those before the position
\* of the loops, and the one at which the run aborted
Reached(e) ==
    /\ status \in {"running", "done", "aborted"}
    /\ \/ e[1] < ni
       \/ e[1] = ni /\ ci >= 1 /\ e[2] < ci
       \/ e[1] = ni /\ e[2] = ci /\ status = "aborted"

\* the recorded start of the entry lies in some requested interval
InRequest(e) == Containing(Clock(e).start) # {}
Skipped(e) == nodes[e[1]].properties.jira_skip \notin {None, ""}
IssueOf(e) == find_jira_issue(nodes, e[1], settings)

RECURSIVE Recorded(_)
\* the sum of the recorded durations (end - start) of a set of entries
Recorded(S) ==
    IF S = {} THEN 0
    ELSE LET e == CHOOSE x \in S : TRUE
         IN  (Clock(e).end - Clock(e).start) + Recorded(S \ {e})

RECURSIVE Total(_, _)
\* the sum of f over the set S of its arguments
Total(f, S) ==
    IF S = {} THEN 0
    ELSE LET x == CHOOSE y \in S : TRUE IN f[x] + Total(f, S \ {x})

Counted == {e \in Entries : Reached(e) /\ InRequest(e)}

\* C9: at every point of a run the counters hold the recorded, unclipped
\* durations of the matched entries gone through so far and of nothing else:
\* cumulative time of all of them, invoiced time of those of nodes not
\* skipped, skipped time of those of skipped nodes, globally and per day of
\* the recorded start, and the per-task total of those resolved to the task.
\* Hence cumulative = invoiced + skipped everywhere, and the per-task totals
\* add up to the global cumulative total.
C9_CountersAreSumsOfMatchedEntries ==
    /\ cumulative_time = Recorded(Counted)
    /\ invoice_time = Recorded({e \in Counted : ~Skipped(e)})
    /\ skipped_time = Recorded({e \in Counted : Skipped(e)})
    /\ cumulative_time = invoice_time + skipped_time
    /\ \A d \in Dates :
        LET on == {e \in Counted : date(Clock(e).start) = d}
        IN  /\ per_day[d].cumulative_time = Recorded(on)
            /\ per_day[d].invoice_time = Recorded({e \in on : ~Skipped(e)})
            /\ per_day[d].skipped_time = Recorded({e \in on : Skipped(e)})
            /\ per_day[d].cumulative_time =
                   per_day[d].invoice_time + per_day[d].skipped_time
    /\ \A k \in TaskKeys : per_task[k] = Recorded({e \in Counted : IssueOf(e) = k})
    /\ Total(per_task, TaskKeys) = cumulative_time

\* a finished run over a skipped and a not skipped matched entry, one of them
\* recorded beyond the end of the request, and the other of no issue
C9_Witness ==
    /\ status = "done"
    /\ invoice_time > 0
    /\ skipped_time > 0
    /\ per_task[None] > 0
    /\ \E e \in Counted : \A i \in Containing(Clock(e).start) :
           Clock(e).end > intervals[i].end

\* a step of the driver that goes through the clock entry at the position of
\* the loops: it is in a run, at an entry, and moves on or aborts
AtEntry == status = "running" /\ ni <= Len(nodes) /\ ci >= 1
Here == <<ni, ci>>
Goes == AtEntry /\ (status' = "aborted" \/ <<ni, ci>>' # <<ni, ci>>)
Issued(op, cs) == {i \in 1..Len(cs) : cs[i].op = op}
AddedTime == [d \in Dates |-> per_day[d].added_time]

\* C6: going through a matched clock entry of a node whose jira-skip is set
\* issues no remote operation and changes nothing on the tracker, adds the
\* recorded duration to the global and the day's cumulative and skipped time
\* and to the per-task total of the resolved issue, and leaves invoiced and
\* added time as they are.
C6_SkippedNodeCountsButNeverCalls ==
    [][(Goes /\ Skipped(Here) /\ InRequest(Here)) =>
        LET d == Clock(Here).end - Clock(Here).start
            day == date(Clock(Here).start)
        IN  /\ calls' = calls
            /\ worklogs' = worklogs
            /\ status' = "running"
            /\ cumulative_time' = cumulative_time + d
            /\ skipped_time' = skipped_time + d
            /\ invoice_time' = invoice_time
            /\ per_day' = [per_day EXCEPT
                              ![day].cumulative_time = @ + d,
                              ![day].skipped_time = @ + d]
            /\ per_task' = [per_task EXCEPT ![IssueOf(Here)] = @ + d]]_vars

\* a run that queries and writes has gone through a matched entry, of a
\* duration above zero, of a skipped node that resolves to an issue
C6_Witness ==
    /\ status = "done"
    /\ query_jira
    /\ send_data
    /\ \E e \in Counted :
        /\ Skipped(e)
        /\ IssueOf(e) \in Issues
        /\ Clock(e).end > Clock(e).start
        /\ per_task[IssueOf(e)] >= Clock(e).end - Clock(e).start
        /\ calls = <<>>

\* C5: going through a matched clock entry of zero duration creates no
\* work-log and leaves every day's added time as it is, whatever the flags
\* and the tracker hold.
C5_ZeroDurationNeverSubmitted ==
    [][(Goes /\ InRequest(Here) /\ Clock(Here).end = Clock(Here).start) =>
        /\ worklogs' = worklogs
        /\ Issued("add_worklog", calls') = Issued("add_worklog", calls)
        /\ AddedTime' = AddedTime]_vars

\* a run that writes without querying has gone through a matched entry of
\* zero duration of a node that is not skipped and resolves to an issue
C5_Witness ==
    /\ status = "done"
    /\ ~query_jira
    /\ send_data
    /\ \E e \in Counted :
        /\ Clock(e).end = Clock(e).start
        /\ ~Skipped(e)
        /\ IssueOf(e) \in Issues
        /\ worklogs[IssueOf(e)] = <<>>

\* C8: a remote operation that raises is the last the run issues and aborts
\* the run in the same step, which creates no work-log and adds no added
\* time; an aborted run takes no further step: no entry is gone through, no
\* remote operation issued, no counter changed.
C8_RemoteFailureEndsTheRun ==
    [][/\ \A i \in 1..Len(calls') : calls'[i].raised =>
              /\ i = Len(calls')
              /\ status' = "aborted"
              /\ (status = "running" =>
                     worklogs' = worklogs /\ AddedTime' = AddedTime)
       /\ (status = "aborted" /\ run' = run) =>
              UNCHANGED <<ni, ci, calls, worklogs, invoice_time, skipped_time,
                          cumulative_time, per_day, per_task, status>>]_vars

\* a run aborted at the clock entry of the first node by a failing
\* create-worklog, the second node holding a matched entry never gone through
C8_Witness ==
    /\ status = "aborted"
    /\ ni = 1
    /\ Len(calls) > 0
    /\ calls[Len(calls)] = [op |-> "add_worklog", issue |-> IssueOf(<<1, 1>>), raised |-> TRUE]
    /\ <<2, 1>> \in Entries
    /\ InRequest(<<2, 1>>)
    /\ ~Reached(<<2, 1>>)
    /\ cumulative_time = Recorded({<<1, 1>>})

\* some work-log of the issue started at the instant t (a UTC reading)
StartedAt(logs, t) ==
    \E i \in 1..Len(logs) : logs[i].started.naive - logs[i].started.utcoffset = t

\* the clipped interval the driver hands to the gate for the entry
Clipped(e) ==
    Interval(Clock(e).start,
             Min(Clock(e).end, intervals[Least(Containing(Clock(e).start))].end))

\* the gate is called for the entry at the position of the loops
Gated == Goes /\ InRequest(Here) /\ ~Skipped(Here) /\ IssueOf(Here) \in Issues

\* C2: a gate call with perform_write set, on an interval of a duration above
\* zero whose start no work-log of the issue has, in which no remote
\* operation raises, appends one work-log to the issue, started at the
\* interval's start with the whole duration end - start as time spent, and
\* reports sent (the day's added time grows by the recorded duration).
C2_WritesTheWholeDuration ==
    [][(/\ Gated
        /\ send_data
        /\ Clipped(Here).end > Clipped(Here).start
        /\ ~StartedAt(worklogs[IssueOf(Here)], Clipped(Here).start)
        /\ status' = "running") =>
        LET iv == Clipped(Here)
            day == date(Clock(Here).start)
        IN  /\ Len(worklogs'[IssueOf(Here)]) = Len(worklogs[IssueOf(Here)]) + 1
            /\ \A i \in Issues \ {IssueOf(Here)} : worklogs'[i] = worklogs[i]
            /\ LET w == worklogs'[IssueOf(Here)][Len(worklogs'[IssueOf(Here)])]
               IN  /\ w.started.naive - w.started.utcoffset = iv.start
                   /\ w.timeSpentSeconds = iv.end - iv.start
            /\ per_day'[day].added_time =
                   per_day[day].added_time + (Clock(Here).end - Clock(Here).start)]_vars

\* C7: with perform_write unset a run issues no create-worklog, and with
\* query_remote unset a run issues no remote read, neither fetch-issue nor
\* list-worklogs (so with both unset it issues no remote operation).
C7_FlagsGateReadsAndWrites ==
    /\ ~send_data => Issued("add_worklog", calls) = {}
    /\ ~query_jira => Issued("issue", calls) \cup Issued("worklogs", calls) = {}

\* no two work-logs of one issue started at the same instant
NoDuplicates(wl) ==
    \A k \in Issues : \A i, j \in 1..Len(wl[k]) :
        (wl[k][i].started.naive - wl[k][i].started.utcoffset
            = wl[k][j].started.naive - wl[k][j].started.utcoffset) => i = j

\* C10: with query_remote set, a gate call for an interval that starts at the
\* instant a work-log of the issue started creates nothing and reports not
\* sent, and a tracker without two work-logs of one issue started at the same
\* instant stays so in every step, of the first run or of a later one.
C10_NoDuplicateUnderQuery ==
    [][query_jira =>
        /\ (Gated /\ StartedAt(worklogs[IssueOf(Here)], Clock(Here).start)) =>
               /\ worklogs' = worklogs
               /\ Issued("add_worklog", calls') = Issued("add_worklog", calls)
               /\ AddedTime' = AddedTime
        /\ NoDuplicates(worklogs) => NoDuplicates(worklogs')]_vars

\* a querying and writing run has gone through the two entries of the file,
\* both of issue A-1 and of the same start, which the tracker already held at
\* another offset from UTC and still holds once
C10_Witness ==
    /\ status = "done"
    /\ query_jira
    /\ send_data
    /\ Counted = {<<1, 1>>, <<2, 1>>}
    /\ IssueOf(<<2, 1>>) = "A-1"
    /\ Clock(<<1, 1>>).start = Clock(<<2, 1>>).start
    /\ Clock(<<1, 1>>).end > Clock(<<1, 1>>).start
    /\ worklogs["A-1"] = <<ShownAhead>>
    /\ StartedAt(worklogs["A-1"], Clock(<<1, 1>>).start)

\* C1: a run with query_remote set that follows a completed run with the
\* same arguments, over the same file and the tracker as that run left it,
\* issues no create-worklog.
C1_SecondRunWritesNothing ==
    (/\ run >= 2
     /\ prev.ended = "done"
     /\ prev.query_jira = query_jira
     /\ prev.send_data = send_data
     /\ query_jira) => Issued("add_worklog", calls) = {}

\* the first run created two work-logs, the second one has gone through the
\* same two entries and finished
C1_Witness ==
    /\ run = 2
    /\ status = "done"
    /\ prev.ended = "done"
    /\ query_jira
    /\ send_data
    /\ Cardinality(Issued("add_worklog", prev.calls)) = 2
    /\ Cardinality(Counted) = 2
    /\ Len(calls) = 4

====
